---- MODULE Spec2Model ----
(***************************************************************************)
(* git-agecrypt: the clean / smudge / textconv filter protocol of          *)
(* src/main.rs, its hash sidecar files and its recipient rule resolver.    *)
(*                                                                         *)
(* Five specifications share the definitions below:                        *)
(*   Spec      one filter invocation at a time on a fresh checkout         *)
(*   FsSpec    the same operations, started on sidecar files of any length *)
(*   HashSpec  the same operations, with an input whose digest is all zero *)
(*   RuleSpec  load_rule_for applied to a rule tree and a target path      *)
(*   ConcSpec  two filter processes interleaved at their file operations   *)
(***************************************************************************)
EXTENDS Integers, Sequences, FiniteSets, TLC

VARIABLES
    sidecar,     \* file -> the sidecar file on disk ([exists, len, hash])
    head,        \* file -> the blob committed at HEAD (NoBlob when none)
    blake3,      \* contents -> digest: the hash function, fixed in a run
    last,        \* the last invocation: command, arguments, stdout, exit status
    idem,        \* history: the run of cleans that follows a checkout of HEAD
    rq,          \* RuleSpec: the resolver's arguments and its result
    procs        \* ConcSpec: each process's command, locals and position

vars == <<sidecar, head, blake3, last, idem, rq, procs>>

----------------------------------------------------------------------------
(* Bounds of the model *)

\* the largest byte value in the contents fed to a filter
MaxByte == 0
\* encryption is randomized: the number of distinct outcomes of one encrypt
MaxNonce == 2
\* entries in the top-level mapping of a rule tree
MaxEntries == 2
\* elements of a publicKeys array
MaxKeys == 2
\* length up to which the run of consecutive cleans is counted
MaxStreak == 2

(* Program constants *)

\* [0u8; 32]: the size of a blake3 digest and of a sidecar file
HashLen == 32

----------------------------------------------------------------------------
(* Byte strings: contents, digests, blobs *)

\* the contents of a working-tree file, as fed to clean on stdin: the empty
\* file and the files of one byte
Contents == {<<>>} \cup {<<b>> : b \in 0..MaxByte}

\* an injective numbering of the contents
Code(s) == IF s = <<>> THEN 0 ELSE s[1] + 1

\* A digest is HashLen bytes; the model names each digest value by a number,
\* 0 for the digest whose bytes are all zero.
\* [0u8; 32]
ZeroHash == 0

\* a digest for each content: distinct contents have distinct digests, none
\* of them all zeros
Digests == [c \in Contents |-> Code(c) + 1]

\* An input whose blake3 digest is 32 zero bytes.  None is known and none is
\* excluded: the digest is 256 bits of an input of any length.  It is no
\* member of Contents and is fed to the filter in HashSpec only.
ZeroPreimage == <<0, 0>>

\* the digests of HashSpec: those of Digests, and zeros for ZeroPreimage
ZeroDigests == [c \in Contents \cup {ZeroPreimage} |->
                   IF c = ZeroPreimage THEN ZeroHash ELSE Digests[c]]

\* hasher.update(&contents).finalize()
Hash(contents) == blake3[contents]

NoBlob == [fmt |-> "none", rcpt |-> <<>>, body |-> <<>>, nonce |-> 0]
\* bytes that are not in the age format
Raw(body) == [fmt |-> "raw", rcpt |-> <<>>, body |-> body, nonce |-> 0]
\* an age file: recipients, payload, and the randomness of its encryption
Age(rcpt, body, nonce) == [fmt |-> "age", rcpt |-> rcpt, body |-> body, nonce |-> nonce]

----------------------------------------------------------------------------
(* The crypto adapter (mod age) *)

PubKeys == {"age1a", "age1b"}
\* a string that is no age recipient
BadKey == "notakey"
Identities == {"idA", "idB"}
PublicOf(id) == IF id = "idA" THEN "age1a" ELSE "age1b"

Range(s) == {s[i] : i \in 1..Len(s)}

\* age::encrypt(public_keys, contents): fails on a malformed recipient or on
\* none at all; its output differs from call to call (nonce)
age_encrypt(public_keys, contents, nonce) ==
    IF public_keys = <<>> \/ ~(Range(public_keys) \subseteq PubKeys)
    THEN [ok |-> FALSE, out |-> NoBlob]
    ELSE [ok |-> TRUE, out |-> Age(public_keys, contents, nonce)]

\* age::decrypt(identities, input): Ok(None) when the input is not an age
\* file, Ok(Some(plaintext)) when an identity matches a recipient, Err else
age_decrypt(identities, input) ==
    IF input.fmt = "raw" THEN [kind |-> "none", body |-> <<>>]
    ELSE IF input.fmt = "age" /\ \E i \in 1..Len(identities) :
                                     PublicOf(identities[i]) \in Range(input.rcpt)
    THEN [kind |-> "some", body |-> input.body]
    ELSE [kind |-> "err", body |-> <<>>]

----------------------------------------------------------------------------
(* Paths *)

\* repo.workdir(), also the canonical directory of the rule file
WorkDir == <<"/", "repo">>

\* Path::join: an absolute argument replaces the base
join(base, pth) == IF pth # <<>> /\ pth[1] = "/" THEN pth ELSE base \o pth

\* Path equality compares components, which skip "."
Components(p) == SelectSeq(p, LAMBDA c : c # ".")
path_eq(p, q) == Components(p) = Components(q)

\* the files the filter is invoked for (workdir-relative)
Files == {"a", "b"}
\* repo.workdir().join(file)
AbsFile(f) == join(WorkDir, <<f>>)

----------------------------------------------------------------------------
(* The evaluator adapter (mod nix): a rule tree is a serde_json value *)

JNull == [t |-> "null", v |-> <<>>]
JStr(s) == [t |-> "str", v |-> <<s>>]
JArr(items) == [t |-> "arr", v |-> items]
\* an object: its fields in the map's iteration order, <<name, value>> each
JObj(fields) == [t |-> "obj", v |-> fields]

\* Map::get(name): the value of the field called name, if any
HasField(obj, name) == \E i \in 1..Len(obj.v) : obj.v[i][1] = name
Field(obj, name) == obj.v[CHOOSE i \in 1..Len(obj.v) : obj.v[i][1] = name][2]

\* what load_rule_for sees of the rule file: the outcome of nix::eval_file
\* and whether the directory of the rule file canonicalizes
Source(val) == [evalOk |-> TRUE, dirOk |-> TRUE, val |-> val]
EvalFails == [evalOk |-> FALSE, dirOk |-> TRUE, val |-> JNull]
NoDir(val) == [evalOk |-> TRUE, dirOk |-> FALSE, val |-> val]

----------------------------------------------------------------------------
(* The recipient rule resolver *)

RuleErr(e) == [ok |-> FALSE, err |-> e, public_keys |-> <<>>]
RuleOk(keys) == [ok |-> TRUE, err |-> "none", public_keys |-> keys]

\* the errors of the resolver that are configuration errors
ConfigErrors == {"eval", "io", "not_object", "entry_not_object",
                 "publicKeys_missing", "publicKeys_not_list",
                 "publicKeys_not_strings"}
NoRuleFound == "no_rule"

\* the mutant of public_keys_of that drops the elements that are no strings
public_keys_of_lenient(v) ==
    IF v.t # "obj" THEN RuleErr("entry_not_object")
    ELSE IF ~HasField(v, "publicKeys") THEN RuleErr("publicKeys_missing")
    ELSE LET pk == Field(v, "publicKeys") IN
         IF pk.t # "arr" THEN RuleErr("publicKeys_not_list")
         ELSE LET strs == SelectSeq(pk.v, LAMBDA k : k.t = "str")
              IN  RuleOk([i \in 1..Len(strs) |-> strs[i].v[1]])

\* lines 158-171: the publicKeys of a matched entry, validated
public_keys_of(v) ==
    IF v.t # "obj" THEN RuleErr("entry_not_object")
    ELSE IF ~HasField(v, "publicKeys") THEN RuleErr("publicKeys_missing")
    ELSE LET pk == Field(v, "publicKeys") IN
         IF pk.t # "arr" THEN RuleErr("publicKeys_not_list")
         ELSE IF \E i \in 1..Len(pk.v) : pk.v[i].t # "str"
              THEN RuleErr("publicKeys_not_strings")
              ELSE RuleOk([i \in 1..Len(pk.v) |-> pk.v[i].v[1]])

\* the mutant of Matching that compares the key itself with the target
Matching_nojoin(entries, for_file) ==
    {i \in 1..Len(entries) : path_eq(entries[i][1], for_file)}

\* line 148-149: the entries whose key, joined to the directory of the rule
\* file, is the target
Matching(entries, for_file) ==
    {i \in 1..Len(entries) : path_eq(join(WorkDir, entries[i][1]), for_file)}

\* the mutant of Min that takes the last entry
Min_last(S) == CHOOSE x \in S : \A y \in S : x >= y

\* the first of the entries in S, in the order of the iteration
Min(S) == CHOOSE x \in S : \A y \in S : x <= y

\* load_rule_for(rules_path, for_file)
load_rule_for(src, for_file) ==
    IF ~src.evalOk THEN RuleErr("eval")
    ELSE IF ~src.dirOk THEN RuleErr("io")
    ELSE IF src.val.t # "obj" THEN RuleErr("not_object")
    ELSE LET m == Matching(src.val.v, for_file) IN
         IF m = {} THEN RuleErr(NoRuleFound)
         ELSE public_keys_of(src.val.v[Min(m)][2])

(* The rule trees of the model *)

KeyLists == UNION {[1..n -> PubKeys] : n \in 0..MaxKeys}
PublicKeys(ks) == <<"publicKeys", JArr([i \in 1..Len(ks) |-> JStr(ks[i])])>>

\* the values of an entry: well-formed ones, and one of each malformation
EntryValues ==
    {JObj(<<PublicKeys(ks)>>) : ks \in KeyLists}
    \cup {JObj(<<PublicKeys(<<BadKey>>)>>),
          JObj(<<<<"other", JNull>>, PublicKeys(<<"age1b">>)>>),
          JObj(<<<<"publicKeys", JArr(<<JStr("age1a"), JNull>>)>>>>),
          JObj(<<<<"publicKeys", JStr("age1a")>>>>),
          JObj(<<>>),
          JStr("age1a")}

\* the keys of the top-level mapping: paths relative to the rule file,
\* with and without a leading "./", and an absolute one
RuleKeys == {<<"a">>, <<".", "a">>, <<"b">>, <<"/", "repo", "a">>}

Entries ==
    UNION {{e \in [1..n -> RuleKeys \X EntryValues] :
               \A i, j \in 1..n : i # j => e[i][1] # e[j][1]} : n \in 0..MaxEntries}

RuleTrees == {JObj(e) : e \in Entries} \cup {JNull, JStr("a"), JArr(<<>>)}

RuleSources ==
    {Source(val) : val \in RuleTrees} \cup {EvalFails, NoDir(JObj(<<>>))}

\* the paths rules are looked up for
Targets == {AbsFile(f) : f \in Files \cup {"c"}}

----------------------------------------------------------------------------
(* The sidecar file of a path (repo.get_sidecar(file, "hash")) *)

\* the mutant of get_sidecar that maps every path to one sidecar file
get_sidecar_shared(f) == "a"

\* repo.get_sidecar(&file, "hash"): the path of the sidecar file of a path,
\* a different one for each path; the model names it by the path
get_sidecar(f) == f

\* A sidecar file is known by its length and by the digest its bytes begin
\* with: the first len bytes of the digest, followed by other bytes when
\* len > HashLen.
NoFile == [exists |-> FALSE, len |-> 0, hash |-> ZeroHash]
FileOf(len, hash) ==
    [exists |-> TRUE, len |-> len, hash |-> IF len = 0 THEN ZeroHash ELSE hash]

\* lines 45-55: existing_hash starts as zeros; a sidecar that opens is read
\* with read_exact, which fails on fewer than 32 bytes and reads the first
\* 32 of more; a sidecar that is not found leaves the zeros
read_sidecar(sc) ==
    IF ~sc.exists THEN [ok |-> TRUE, existing_hash |-> ZeroHash]
    ELSE IF sc.len < HashLen THEN [ok |-> FALSE, existing_hash |-> ZeroHash]
    ELSE [ok |-> TRUE, existing_hash |-> sc.hash]

\* File::create(sidecar): the file is created, or truncated if it exists
file_create(sc) == FileOf(0, ZeroHash)

\* the mutant of file_write_all that writes at the end of the file, as a
\* handle opened for appending would
file_write_all_append(sc, hash) ==
    FileOf(sc.len + HashLen, IF sc.len = 0 THEN hash ELSE sc.hash)

\* write_all(hash.as_bytes()) on the handle File::create returned: HashLen
\* bytes written at offset 0 of the file as it is by then
file_write_all(sc, hash) == FileOf(IF sc.len > HashLen THEN sc.len ELSE HashLen, hash)

\* File::create(sidecar)?.write_all(hash.as_bytes()), done by one process
\* with no other process in between
write_sidecar(hash) == file_write_all(file_create(NoFile), hash)

\* repo.get_file_contents(file): the blob at HEAD, an error when there is none
get_file_contents(blob) ==
    IF blob = NoBlob THEN [ok |-> FALSE, out |-> NoBlob] ELSE [ok |-> TRUE, out |-> blob]

----------------------------------------------------------------------------
(* The filter commands.  Each returns what the process leaves behind:      *)
(* its exit status, the bytes on stdout (NoBlob: none), the sidecar file   *)
(* of its path, and the number of calls it made to the crypto adapter.     *)

Outcome(status, err, out, sc, enc, dec, hit) ==
    [status |-> status, err |-> err, out |-> out, sidecar |-> sc,
     enc |-> enc, dec |-> dec, hit |-> hit]

\* the mutant of clean that never consults the sidecar
clean_always_encrypt(sc, blob, f, contents, src, nonce) ==
    LET rule == load_rule_for(src, AbsFile(f))
        e == age_encrypt(rule.public_keys, contents, nonce)
    IN  IF ~rule.ok THEN Outcome("err", rule.err, NoBlob, write_sidecar(Hash(contents)), 0, 0, FALSE)
        ELSE IF ~e.ok THEN Outcome("err", "encrypt", NoBlob, write_sidecar(Hash(contents)), 1, 0, FALSE)
        ELSE Outcome("ok", "none", e.out, write_sidecar(Hash(contents)), 1, 0, FALSE)

\* the mutant of clean that passes its input through when no rule is found
clean_skip_norule(sc, blob, f, contents, src, nonce) ==
    LET rd == read_sidecar(sc)
        hash == Hash(contents)
        rule == load_rule_for(src, AbsFile(f))
        e == age_encrypt(rule.public_keys, contents, nonce)
        g == get_file_contents(blob)
    IN  IF ~rd.ok THEN Outcome("err", "sidecar_io", NoBlob, sc, 0, 0, FALSE)
        ELSE IF hash = rd.existing_hash
        THEN IF g.ok THEN Outcome("ok", "none", g.out, sc, 0, 0, TRUE)
                     ELSE Outcome("err", "head_io", NoBlob, sc, 0, 0, TRUE)
        ELSE IF rule.err = NoRuleFound
        THEN Outcome("ok", "none", Raw(contents), write_sidecar(hash), 0, 0, FALSE)
        ELSE IF ~rule.ok THEN Outcome("err", rule.err, NoBlob, write_sidecar(hash), 0, 0, FALSE)
        ELSE IF ~e.ok THEN Outcome("err", "encrypt", NoBlob, write_sidecar(hash), 1, 0, FALSE)
        ELSE Outcome("ok", "none", e.out, write_sidecar(hash), 1, 0, FALSE)

\* the mutant of clean that resolves the rule before it compares the hashes
clean_rule_first(sc, blob, f, contents, src, nonce) ==
    LET rd == read_sidecar(sc)
        hash == Hash(contents)
        rule == load_rule_for(src, AbsFile(f))
        e == age_encrypt(rule.public_keys, contents, nonce)
        g == get_file_contents(blob)
    IN  IF ~rd.ok THEN Outcome("err", "sidecar_io", NoBlob, sc, 0, 0, FALSE)
        ELSE IF ~rule.ok THEN Outcome("err", rule.err, NoBlob, sc, 0, 0, FALSE)
        ELSE IF hash = rd.existing_hash
        THEN IF g.ok THEN Outcome("ok", "none", g.out, sc, 0, 0, TRUE)
                     ELSE Outcome("err", "head_io", NoBlob, sc, 0, 0, TRUE)
        ELSE IF ~e.ok THEN Outcome("err", "encrypt", NoBlob, write_sidecar(hash), 1, 0, FALSE)
        ELSE Outcome("ok", "none", e.out, write_sidecar(hash), 1, 0, FALSE)

\* clean(repo, secrets_nix, file) with contents on stdin; sc is the sidecar
\* of the file and blob its blob at HEAD
clean(sc, blob, f, contents, src, nonce) ==
    LET rd == read_sidecar(sc)
        hash == Hash(contents)
        rule == load_rule_for(src, AbsFile(f))
        e == age_encrypt(rule.public_keys, contents, nonce)
        g == get_file_contents(blob)
    IN  IF ~rd.ok THEN Outcome("err", "sidecar_io", NoBlob, sc, 0, 0, FALSE)
        ELSE IF hash = rd.existing_hash
        THEN \* line 69
             IF g.ok THEN Outcome("ok", "none", g.out, sc, 0, 0, TRUE)
                     ELSE Outcome("err", "head_io", NoBlob, sc, 0, 0, TRUE)
        \* lines 72-74: the sidecar is written first, then `?` returns early
        ELSE IF ~rule.ok THEN Outcome("err", rule.err, NoBlob, write_sidecar(hash), 0, 0, FALSE)
        ELSE IF ~e.ok THEN Outcome("err", "encrypt", NoBlob, write_sidecar(hash), 1, 0, FALSE)
        ELSE Outcome("ok", "none", e.out, write_sidecar(hash), 1, 0, FALSE)

\* the mutant of smudge that passes through what is not encrypted
smudge_passthrough(sc, identities, input) ==
    LET d == age_decrypt(identities, input)
    IN  IF d.kind = "err" THEN Outcome("err", "decrypt", NoBlob, sc, 0, 1, FALSE)
        ELSE IF d.kind = "some"
        THEN Outcome("ok", "none", Raw(d.body), write_sidecar(Hash(d.body)), 0, 1, FALSE)
        ELSE Outcome("ok", "none", input, write_sidecar(Hash(input.body)), 0, 1, FALSE)

\* smudge(repo, identities, file) with input on stdin
smudge(sc, identities, input) ==
    LET d == age_decrypt(identities, input)
    IN  IF d.kind = "err" THEN Outcome("err", "decrypt", NoBlob, sc, 0, 1, FALSE)
        ELSE IF d.kind = "some"
        THEN Outcome("ok", "none", Raw(d.body), write_sidecar(Hash(d.body)), 0, 1, FALSE)
        ELSE Outcome("err", "not_encrypted", NoBlob, sc, 0, 1, FALSE)

\* f.rewind(): the position of the stream afterwards
rewind(pos) == 0
\* f.read_to_end(): the bytes from the position of the stream on
read_to_end(input, pos) == Raw(SubSeq(input.body, pos + 1, Len(input.body)))

\* the mutant of textconv that reads on from where decrypt stopped
textconv_norewind(identities, input, consumed) ==
    LET d == age_decrypt(identities, input)
    IN  IF input = NoBlob THEN Outcome("err", "open_io", NoBlob, NoFile, 0, 0, FALSE)
        ELSE IF d.kind = "err" THEN Outcome("err", "decrypt", NoBlob, NoFile, 0, 1, FALSE)
        ELSE IF d.kind = "some" THEN Outcome("ok", "none", Raw(d.body), NoFile, 0, 1, FALSE)
        ELSE Outcome("ok", "none", read_to_end(input, consumed), NoFile, 0, 1, FALSE)

\* textconv(identities, path): input is the file at path (NoBlob: no such
\* file), consumed the number of its bytes decrypt read before it answered
textconv(identities, input, consumed) ==
    LET d == age_decrypt(identities, input)
    IN  IF input = NoBlob THEN Outcome("err", "open_io", NoBlob, NoFile, 0, 0, FALSE)
        ELSE IF d.kind = "err" THEN Outcome("err", "decrypt", NoBlob, NoFile, 0, 1, FALSE)
        ELSE IF d.kind = "some" THEN Outcome("ok", "none", Raw(d.body), NoFile, 0, 1, FALSE)
        ELSE Outcome("ok", "none", read_to_end(input, rewind(consumed)), NoFile, 0, 1, FALSE)

----------------------------------------------------------------------------
(* State *)

Nonces == 1..MaxNonce

\* the rule files clean is run with (its secrets_nix argument), by name: a
\* well-formed one with rules for both files, one without a rule for "a",
\* and one whose rule for "a" is malformed and whose key for "b" is no
\* recipient
RuleFiles ==
    [both |-> Source(JObj(<<<<<<"a">>, JObj(<<PublicKeys(<<"age1a">>)>>)>>,
                            <<<<".", "b">>, JObj(<<PublicKeys(<<"age1a">>)>>)>>>>)),
     only_b |-> Source(JObj(<<<<<<"b">>, JObj(<<PublicKeys(<<"age1a">>)>>)>>>>)),
     faulty |-> Source(JObj(<<<<<<"a">>, JObj(<<>>)>>,
                              <<<<"b">>, JObj(<<PublicKeys(<<BadKey>>)>>)>>>>))]
FilterSources == DOMAIN RuleFiles

\* the identity files smudge and textconv are run with
IdentityLists == {<<"idA">>, <<"idB">>}

\* age::decrypt answers None from the header alone: the identities are
\* used only on input that is an age file
IdentitiesFor(input) == IF input.fmt = "age" THEN IdentityLists ELSE {<<"idA">>}

\* the record of an invocation: the command line (op, file, secrets_nix or
\* identities), stdin or the file read (input), and what it left behind
LastOf(op, f, input, src, ids, r) ==
    [op |-> op, file |-> f, input |-> input, src |-> src, ids |-> ids,
     status |-> r.status, err |-> r.err, out |-> r.out,
     enc |-> r.enc, dec |-> r.dec, hit |-> r.hit]
Plain(op, f, input) ==
    LastOf(op, f, input, "", <<>>, Outcome("ok", "none", NoBlob, NoFile, 0, 0, FALSE))
Failed(op, f, input, err) ==
    LastOf(op, f, input, "", <<>>, Outcome("err", err, NoBlob, NoFile, 0, 0, FALSE))

IdemOff == [on |-> FALSE, file |-> "", plain |-> <<>>, cipher |-> NoBlob, n |-> 0]

RqIdle == <<>>
ProcsIdle == <<>>

\* the blobs a checkout of f can hand to smudge: the blob at HEAD, what the
\* last clean staged, a file that was never encrypted
Checkouts(f) ==
    ({head[f]} \cup {Raw(c) : c \in Contents}
        \cup {last.out : x \in {0} \cap {IF last.op = "clean" /\ last.file = f THEN 0 ELSE 1}})
    \ {NoBlob}

\* the files a diff can hand to textconv: a blob at HEAD, a working copy,
\* or a path with no file (NoBlob)
Diffed == {head[f] : f \in Files} \cup {Raw(c) : c \in Contents}

\* the bytes of its input age::decrypt may have read when it answers that
\* the input is not encrypted
Consumed(input) == IF input.fmt = "raw" THEN 0..Len(input.body) ELSE {0}

----------------------------------------------------------------------------
(* Spec: one invocation at a time *)

Init ==
    /\ sidecar = [f \in Files |-> NoFile]
    /\ head = [f \in Files |-> NoBlob]
    /\ blake3 = Digests
    /\ last = Plain("none", "", NoBlob)
    /\ idem = IdemOff
    /\ rq = RqIdle
    /\ procs = ProcsIdle

\* git-agecrypt init: repo.configure_filter()?, which touches the git
\* configuration only
InitFilter ==
    /\ last' = Plain("init", "", NoBlob)
    /\ idem' = IdemOff
    /\ UNCHANGED <<sidecar, head, blake3, rq, procs>>

\* repo.remove_sidecar_files(): every sidecar file is deleted but those in
\* kept, whose removal fails; the failure is reported once the rest is gone
remove_sidecar_files(scs, kept) ==
    [ok |-> kept = {}, sidecars |-> [f \in Files |-> IF f \in kept THEN scs[f] ELSE NoFile]]

\* git-agecrypt deinit: deconfigure_filter()?, then remove_sidecar_files()?
Deinit(deconfigured, kept) ==
    /\ kept \subseteq {f \in Files : sidecar[f].exists}
    /\ IF deconfigured
       THEN LET rm == remove_sidecar_files(sidecar, kept)
            IN  /\ sidecar' = rm.sidecars
                /\ last' = IF rm.ok THEN Plain("deinit", "", NoBlob)
                                     ELSE Failed("deinit", "", NoBlob, "remove_io")
       ELSE /\ kept = {}
            /\ UNCHANGED sidecar
            /\ last' = Failed("deinit", "", NoBlob, "config_io")
    /\ idem' = IdemOff
    /\ UNCHANGED <<head, blake3, rq, procs>>

\* git add: the clean filter runs on the working-tree file; nonce is the
\* randomness of age::encrypt, which only a clean that encrypts draws
Clean(f, contents, src, nonce) ==
    LET r == clean(sidecar[get_sidecar(f)], head[f], f, contents, RuleFiles[src], nonce)
    IN  /\ nonce = 1 \/ (r.status = "ok" /\ r.enc = 1)
        /\ sidecar' = [sidecar EXCEPT ![get_sidecar(f)] = r.sidecar]
        /\ last' = LastOf("clean", f, Raw(contents), src, <<>>, r)
        /\ idem' = IF idem.on /\ idem.file = f /\ idem.plain = contents
                   THEN [idem EXCEPT !.n = IF idem.n < MaxStreak THEN idem.n + 1 ELSE idem.n]
                   ELSE IdemOff
        /\ UNCHANGED <<head, blake3, rq, procs>>

\* git commit: what the last clean wrote to stdout becomes the blob at HEAD
Commit(f) ==
    /\ last.op = "clean" /\ last.file = f /\ last.status = "ok"
    /\ head' = [head EXCEPT ![f] = last.out]
    /\ last' = Plain("commit", f, last.out)
    /\ idem' = IdemOff
    /\ UNCHANGED <<sidecar, blake3, rq, procs>>

\* git checkout: the smudge filter runs on a blob
Smudge(f, identities, input) ==
    LET r == smudge(sidecar[get_sidecar(f)], identities, input)
    IN  /\ sidecar' = [sidecar EXCEPT ![get_sidecar(f)] = r.sidecar]
        /\ last' = LastOf("smudge", f, input, "", identities, r)
        /\ idem' = IF r.status = "ok" /\ input = head[f]
                   THEN [on |-> TRUE, file |-> f, plain |-> r.out.body,
                         cipher |-> input, n |-> 0]
                   ELSE IdemOff
        /\ UNCHANGED <<head, blake3, rq, procs>>

\* git diff: textconv runs on a file
Textconv(identities, input, consumed) ==
    /\ last' = LastOf("textconv", "", input, "", identities,
                     textconv(identities, input, consumed))
    /\ idem' = IdemOff
    /\ UNCHANGED <<sidecar, head, blake3, rq, procs>>

Next ==
    \/ InitFilter
    \/ \E d \in BOOLEAN, kept \in SUBSET Files : Deinit(d, kept)
    \/ \E f \in Files, c \in DOMAIN blake3, src \in FilterSources, n \in Nonces :
          Clean(f, c, src, n)
    \/ \E f \in Files : Commit(f)
    \/ \E f \in Files : \E b \in Checkouts(f) : \E ids \in IdentitiesFor(b) :
          Smudge(f, ids, b)
    \/ \E b \in Diffed : \E ids \in IdentitiesFor(b), k \in Consumed(b) :
          Textconv(ids, b, k)

Spec == Init /\ [][Next]_vars

----------------------------------------------------------------------------
(* FsSpec: the same commands, started on whatever the sidecar directory    *)
(* holds: no file, or a file of any length; a path has no blob at HEAD or  *)
(* one committed earlier                                                   *)

SidecarFiles ==
    {NoFile, FileOf(0, ZeroHash)}
    \cup {FileOf(n, Digests[c]) : n \in {HashLen - 1, HashLen, HashLen + 1}, c \in Contents}

\* the blobs at HEAD FsSpec starts on
CommittedBlobs == {NoBlob, Age(<<"age1a">>, <<>>, 1)}

FsInit ==
    /\ sidecar \in [Files -> SidecarFiles]
    /\ head \in [Files -> CommittedBlobs]
    /\ blake3 = Digests
    /\ last = Plain("none", "", NoBlob)
    /\ idem = IdemOff
    /\ rq = RqIdle
    /\ procs = ProcsIdle

FsSpec == FsInit /\ [][Next]_vars

----------------------------------------------------------------------------
(* HashSpec: the same commands on a fresh checkout, where one of the inputs *)
(* of clean has the digest of 32 zero bytes                                 *)

HashInit ==
    /\ sidecar = [f \in Files |-> NoFile]
    /\ head = [f \in Files |-> NoBlob]
    /\ blake3 = ZeroDigests
    /\ last = Plain("none", "", NoBlob)
    /\ idem = IdemOff
    /\ rq = RqIdle
    /\ procs = ProcsIdle

HashSpec == HashInit /\ [][Next]_vars

----------------------------------------------------------------------------
(* RuleSpec: the resolver applied to a rule file and a target *)

RuleInit ==
    /\ rq \in {[src |-> s, target |-> t, res |-> RuleErr("none"), done |-> FALSE] :
                  s \in RuleSources, t \in Targets}
    /\ sidecar = [f \in Files |-> NoFile]
    /\ head = [f \in Files |-> NoBlob]
    /\ blake3 = Digests
    /\ last = Plain("none", "", NoBlob)
    /\ idem = IdemOff
    /\ procs = ProcsIdle

Resolve ==
    /\ ~rq.done
    /\ rq' = [rq EXCEPT !.res = load_rule_for(rq.src, rq.target), !.done = TRUE]
    /\ UNCHANGED <<sidecar, head, blake3, last, idem, procs>>

RuleNext == Resolve

RuleSpec == RuleInit /\ [][RuleNext]_vars

----------------------------------------------------------------------------
(* ConcSpec: two filter processes, started by git for checkouts and adds   *)
(* that overlap, interleaved at their operations on files                  *)

Procs == {1, 2}

\* a process at its start: the command, its file, its stdin
Start(op, f, input) ==
    [op |-> op, file |-> f, input |-> input,
     pc |-> IF op = "clean" THEN "open" ELSE "decrypt",
     existing_hash |-> ZeroHash, hash |-> ZeroHash, wrote |-> FALSE,
     status |-> "run", err |-> "none", out |-> NoBlob]

Starts ==
    {Start("clean", f, Raw(c)) : f \in Files, c \in Contents}
    \cup {Start("smudge", f, b) :
             f \in Files, b \in {Age(<<"age1a">>, c, 1) : c \in Contents} \cup {Raw(<<>>)}}

ConcInit ==
    /\ procs \in [Procs -> Starts]
    /\ sidecar \in [Files -> {NoFile} \cup {write_sidecar(Digests[c]) : c \in Contents}]
    /\ head \in [Files -> {NoBlob} \cup {Age(<<"age1a">>, c, 1) : c \in Contents}]
    /\ blake3 = Digests
    /\ last = Plain("none", "", NoBlob)
    /\ idem = IdemOff
    /\ rq = RqIdle

At(p, op, pc) == procs[p].op = op /\ procs[p].pc = pc
Goto(p, pc) == procs' = [procs EXCEPT ![p].pc = pc]
Exit(p, status, err, out) ==
    procs' = [procs EXCEPT ![p].pc = "done", ![p].status = status,
                            ![p].err = err, ![p].out = out]

\* line 47: File::open(&sidecar)
Open(p) ==
    /\ At(p, "clean", "open")
    /\ Goto(p, IF sidecar[procs[p].file].exists THEN "read" ELSE "stdin")
    /\ UNCHANGED <<sidecar, head, blake3, last, idem, rq>>

\* line 49: f.read_exact(&mut existing_hash)?, on the file as it is by now
ReadExact(p) ==
    /\ At(p, "clean", "read")
    /\ LET rd == read_sidecar(sidecar[procs[p].file])
       IN  IF rd.ok
           THEN procs' = [procs EXCEPT ![p].pc = "stdin",
                                        ![p].existing_hash = rd.existing_hash]
           ELSE Exit(p, "err", "sidecar_io", NoBlob)
    /\ UNCHANGED <<sidecar, head, blake3, last, idem, rq>>

\* lines 56-67: read stdin, hash it, compare with the saved hash
Compare(p) ==
    /\ At(p, "clean", "stdin")
    /\ LET hash == Hash(procs[p].input.body)
       IN  procs' = [procs EXCEPT ![p].hash = hash,
                                   ![p].pc = IF hash = procs[p].existing_hash
                                             THEN "head" ELSE "create"]
    /\ UNCHANGED <<sidecar, head, blake3, last, idem, rq>>

\* line 69: repo.get_file_contents(file), then line 76
GetHead(p) ==
    /\ At(p, "clean", "head")
    /\ LET g == get_file_contents(head[procs[p].file])
       IN  IF g.ok THEN Exit(p, "ok", "none", g.out)
                   ELSE Exit(p, "err", "head_io", NoBlob)
    /\ UNCHANGED <<sidecar, head, blake3, last, idem, rq>>

\* lines 89-91 of smudge; lines 72 and 98: File::create(sidecar)
Create(p) ==
    /\ procs[p].pc = "create"
    /\ sidecar' = [sidecar EXCEPT ![procs[p].file] = file_create(@)]
    /\ Goto(p, "write")
    /\ UNCHANGED <<head, blake3, last, idem, rq>>

\* lines 72 and 98: write_all(hash.as_bytes())
WriteAll(p) ==
    /\ procs[p].pc = "write"
    /\ sidecar' = [sidecar EXCEPT ![procs[p].file] = file_write_all(@, procs[p].hash)]
    /\ procs' = [procs EXCEPT ![p].wrote = TRUE,
                                ![p].pc = IF procs[p].op = "clean" THEN "encrypt" ELSE "stdout"]
    /\ UNCHANGED <<head, blake3, last, idem, rq>>

\* lines 73-76: load_rule_for, age::encrypt, write to stdout
Encrypt(p, nonce) ==
    /\ At(p, "clean", "encrypt")
    /\ LET rule == load_rule_for(RuleFiles["both"], AbsFile(procs[p].file))
           e == age_encrypt(rule.public_keys, procs[p].input.body, nonce)
       IN  IF ~rule.ok THEN Exit(p, "err", rule.err, NoBlob)
           ELSE IF ~e.ok THEN Exit(p, "err", "encrypt", NoBlob)
           ELSE Exit(p, "ok", "none", e.out)
    /\ UNCHANGED <<sidecar, head, blake3, last, idem, rq>>

\* lines 87-91 and 102: age::decrypt of stdin, hash of the plaintext
Decrypt(p) ==
    /\ At(p, "smudge", "decrypt")
    /\ LET d == age_decrypt(<<"idA">>, procs[p].input)
       IN  IF d.kind = "some"
           THEN procs' = [procs EXCEPT ![p].pc = "create", ![p].hash = Hash(d.body),
                                        ![p].out = Raw(d.body)]
           ELSE Exit(p, "err", IF d.kind = "none" THEN "not_encrypted" ELSE "decrypt",
                     NoBlob)
    /\ UNCHANGED <<sidecar, head, blake3, last, idem, rq>>

\* line 100: io::stdout().write_all(&rv)
Stdout(p) ==
    /\ At(p, "smudge", "stdout")
    /\ Exit(p, "ok", "none", procs[p].out)
    /\ UNCHANGED <<sidecar, head, blake3, last, idem, rq>>

ConcNext ==
    \E p \in Procs :
        \/ Open(p)
        \/ ReadExact(p)
        \/ Compare(p)
        \/ GetHead(p)
        \/ Create(p)
        \/ WriteAll(p)
        \/ \E n \in Nonces : Encrypt(p, n)
        \/ Decrypt(p)
        \/ Stdout(p)

ConcSpec == ConcInit /\ [][ConcNext]_vars

----------------------------------------------------------------------------
(* Properties *)

\* the step is an invocation of command op for file f
Ran(op, f) == last'.op = op /\ last'.file = f

\* an entry value the resolver accepts, and the list it holds
WellFormed(v) ==
    /\ v.t = "obj"
    /\ \E i \in 1..Len(v.v) :
          /\ v.v[i][1] = "publicKeys"
          /\ v.v[i][2].t = "arr"
          /\ \A j \in 1..Len(v.v[i][2].v) : v.v[i][2].v[j].t = "str"
KeysOf(v) ==
    LET arr == v.v[CHOOSE i \in 1..Len(v.v) : v.v[i][1] = "publicKeys"][2].v
    IN  [j \in 1..Len(arr) |-> arr[j].v[1]]

\* C1: after a successful smudge of the blob C committed at HEAD for f, which
\* yields P, every clean of f with input P that follows without another
\* command in between succeeds, outputs exactly C and calls encrypt zero times.
C1_IdempotentClean ==
    (idem.on /\ idem.n >= 1) =>
        /\ last.op = "clean" /\ last.file = idem.file /\ last.input = Raw(idem.plain)
        /\ last.status = "ok"
        /\ last.out = idem.cipher
        /\ last.out = head[idem.file]
        /\ last.enc = 0

\* C1 witness: a second consecutive clean after the smudge returned C again
C1_Witness ==
    /\ idem.on /\ idem.n >= 2
    /\ last.op = "clean" /\ last.out = idem.cipher /\ idem.cipher.fmt = "age"

\* C2 (as claimed): whenever a clean of P for f succeeded under a rule file
\* that has a rule for f, smudging its output for f with an identity of one of
\* the rule's recipients succeeds and returns exactly P.
C2_RoundTrip ==
    [][(/\ last.op = "clean" /\ last.status = "ok"
        /\ load_rule_for(RuleFiles[last.src], AbsFile(last.file)).ok
        /\ Ran("smudge", last.file)
        /\ last'.input = last.out
        /\ \E i \in 1..Len(last'.ids) :
              PublicOf(last'.ids[i]) \in
                  Range(load_rule_for(RuleFiles[last.src], AbsFile(last.file)).public_keys))
       => (last'.status = "ok" /\ last'.out = last.input)]_vars

\* C3 (as claimed): a clean for f whose sidecar holds a digest that is not the
\* digest of the plaintext of the blob at HEAD for f (or f has no blob at
\* HEAD) does not fail on the sidecar or on the HEAD lookup and does not take
\* the HEAD blob: it re-encrypts its input.
C3_StaleSidecarReencrypts ==
    [][\A f \in Files :
          (/\ Ran("clean", f)
           /\ sidecar[f].exists /\ sidecar[f].len = HashLen
           /\ (head[f] = NoBlob \/ sidecar[f].hash # Hash(head[f].body)))
          => (/\ ~last'.hit
              /\ last'.err \notin {"sidecar_io", "head_io"}
              /\ (last'.status = "ok" => last'.enc = 1 /\ last'.out # head[f]))]_vars

\* C4: every successful clean outputs the blob at HEAD for the path or an
\* encryption of its input for the rule's public keys, never the input
\* itself; a clean that does not find its input's digest in the sidecar and
\* has no rule for the path fails with NoRuleFound and writes no output.
C4_NoPlaintextOut ==
    [][\A f \in Files :
          Ran("clean", f) =>
             LET rule == load_rule_for(RuleFiles[last'.src], AbsFile(f))
                 rd == read_sidecar(sidecar[f])
             IN  /\ last'.status = "ok" =>
                      /\ \/ last'.out = head[f] /\ head[f] # NoBlob
                         \/ /\ rule.ok
                            /\ \E n \in Nonces :
                                  last'.out = Age(rule.public_keys, last'.input.body, n)
                      /\ last'.out # last'.input
                      /\ last'.out.fmt = "age"
                 /\ (/\ rd.ok /\ rd.existing_hash # Hash(last'.input.body)
                     /\ rule.err = NoRuleFound)
                    => (/\ last'.status = "err" /\ last'.err = NoRuleFound
                        /\ last'.out = NoBlob)]_vars

\* C4 witness: a clean that had to encrypt found no rule and wrote nothing
C4_Witness ==
    /\ last.op = "clean" /\ last.status = "err" /\ last.err = NoRuleFound
    /\ last.out = NoBlob /\ ~last.hit

\* C5 (as claimed): a clean for f that fails in rule resolution or in
\* encryption leaves the sidecar of f as it was before the invocation.
C5_FailedCleanKeepsSidecar ==
    [][\A f \in Files :
          (Ran("clean", f) /\ last'.err \in ConfigErrors \cup {NoRuleFound, "encrypt"})
          => sidecar'[f] = sidecar[f]]_vars

\* C6: when decrypt reports the input of smudge as not encrypted, smudge
\* fails with NotEncrypted, writes no output and leaves every sidecar as it was.
C6_SmudgeRejectsPlain ==
    [][\A f \in Files :
          (Ran("smudge", f) /\ age_decrypt(last'.ids, last'.input).kind = "none")
          => (/\ last'.status = "err" /\ last'.err = "not_encrypted"
              /\ last'.out = NoBlob
              /\ sidecar' = sidecar)]_vars

\* C6 witness: a smudge of bytes that are not an age file has failed
C6_Witness ==
    /\ last.op = "smudge" /\ last.input.fmt = "raw" /\ last.err = "not_encrypted"

\* C7: textconv of a file that exists outputs the plaintext when decrypt
\* recognises the file, and the whole file, unchanged, when decrypt reports
\* it as not encrypted; it succeeds in both cases.
C7_TextconvFallback ==
    (last.op = "textconv" /\ last.input # NoBlob) =>
        LET d == age_decrypt(last.ids, last.input)
        IN  /\ d.kind = "some" => last.status = "ok" /\ last.out = Raw(d.body)
            /\ d.kind = "none" => last.status = "ok" /\ last.out = last.input

\* C7 witness: textconv showed a non-empty unencrypted file as it is
C7_Witness ==
    /\ last.op = "textconv" /\ last.input.fmt = "raw" /\ Len(last.input.body) > 0
    /\ last.status = "ok" /\ last.out = last.input

\* C8: for a rule tree that is a mapping, the resolver fails with NoRuleFound
\* exactly when no entry's key joined to the base directory is the target;
\* what it returns is the ordered publicKeys list of such an entry, and it
\* returns when all such entries are well-formed; with entries {a: keys1,
\* b: keys2} it returns keys1 for a, keys2 for b and NoRuleFound for c.
C8_RuleResolution ==
    (rq.done /\ rq.src.evalOk /\ rq.src.dirOk /\ rq.src.val.t = "obj") =>
        LET entries == rq.src.val.v
            hits == {i \in 1..Len(entries) :
                        path_eq(join(WorkDir, entries[i][1]), rq.target)}
        IN  /\ rq.res.err = NoRuleFound <=> hits = {}
            /\ rq.res.ok =>
                  \E i \in hits : /\ WellFormed(entries[i][2])
                                  /\ rq.res.public_keys = KeysOf(entries[i][2])
            /\ (hits # {} /\ \A i \in hits : WellFormed(entries[i][2])) => rq.res.ok
            /\ (/\ Len(entries) = 2
                /\ entries[1][1] = <<"a">> /\ WellFormed(entries[1][2])
                /\ entries[2][1] = <<"b">> /\ WellFormed(entries[2][2]))
               => /\ rq.target = AbsFile("a") => rq.res = RuleOk(KeysOf(entries[1][2]))
                  /\ rq.target = AbsFile("b") => rq.res = RuleOk(KeysOf(entries[2][2]))
                  /\ rq.target = AbsFile("c") => rq.res = RuleErr(NoRuleFound)

\* C8 witness: {a: [age1a], b: [age1b, age1a]} resolved for b
C8_Witness ==
    /\ rq.done
    /\ rq.src = Source(JObj(<<<<<<"a">>, JObj(<<PublicKeys(<<"age1a">>)>>)>>,
                              <<<<"b">>, JObj(<<PublicKeys(<<"age1b", "age1a">>)>>)>>>>))
    /\ rq.target = AbsFile("b")
    /\ rq.res = RuleOk(<<"age1b", "age1a">>)

\* C9 (as claimed): a clean that finds a sidecar file whose length is not
\* exactly 32 bytes fails with an I/O error, writes no output and takes no
\* part of the file as a digest.
C9_StrictSidecarLength ==
    [][\A f \in Files :
          (Ran("clean", f) /\ sidecar[f].exists /\ sidecar[f].len # HashLen)
          => (/\ last'.status = "err" /\ last'.err = "sidecar_io"
              /\ last'.out = NoBlob /\ ~last'.hit
              /\ sidecar'[f] = sidecar[f])]_vars

\* C10 (as claimed): a clean that reads the sidecar while another process
\* writes it never finds it empty or partly written and never fails on it:
\* it sees no sidecar, the previous digest or the new one.
C10_AtomicSidecarWrite ==
    \A p \in Procs :
        procs[p].op = "clean" => procs[p].err # "sidecar_io"

\* C11 (as claimed): a clean for f that finds no sidecar file for f does not
\* fail on the sidecar and takes the re-encrypt branch whatever the digest of
\* its input: it does not look up the blob at HEAD, and what it outputs is an
\* encryption of its input.
C11_MissingSidecarIsMiss ==
    [][\A f \in Files :
          (Ran("clean", f) /\ ~sidecar[f].exists)
          => (/\ ~last'.hit
              /\ last'.err \notin {"sidecar_io", "head_io"}
              /\ (last'.status = "ok" =>
                     /\ last'.enc = 1
                     /\ last'.out.fmt = "age" /\ last'.out.body = last'.input.body))]_vars

\* C12 (as claimed): a deinit that succeeds leaves no sidecar file for any
\* path, and the clean that follows it for a path with a blob at HEAD
\* re-encrypts its input, whatever the input: it does not return the blob at
\* HEAD; a deinit that fails to deregister the filter configuration removes
\* no sidecar.
C12_DeinitClearsSidecars ==
    [][/\ last'.op = "deinit" =>
             /\ last'.status = "ok" => \A f \in Files : ~sidecar'[f].exists
             /\ last'.err = "config_io" => sidecar' = sidecar
       /\ (last.op = "deinit" /\ last.status = "ok") =>
             \A f \in Files :
                 (Ran("clean", f) /\ head[f] # NoBlob) =>
                    /\ ~last'.hit
                    /\ last'.status = "ok" =>
                          /\ last'.enc = 1
                          /\ last'.out.fmt = "age" /\ last'.out.body = last'.input.body]_vars

\* C13: when two processes (clean and/or smudge) have both written the
\* sidecar of the same path, with digests d1 and d2, and both have finished,
\* the sidecar is a file of exactly 32 bytes that holds d1 or d2, whatever
\* the interleaving of their File::create and write_all.
C13_LastWriterWins ==
    \A p, q \in Procs :
        (/\ p # q /\ procs[p].file = procs[q].file
         /\ procs[p].pc = "done" /\ procs[q].pc = "done"
         /\ procs[p].wrote /\ procs[q].wrote)
        => sidecar[procs[p].file] \in {FileOf(HashLen, procs[p].hash),
                                        FileOf(HashLen, procs[q].hash)}

\* C13 witness: a clean and a smudge of the same path wrote different
\* digests and have finished; the sidecar holds the digest of the clean
C13_Witness ==
    /\ procs[1].op = "clean" /\ procs[2].op = "smudge"
    /\ procs[1].file = procs[2].file
    /\ procs[1].pc = "done" /\ procs[2].pc = "done"
    /\ procs[1].wrote /\ procs[2].wrote
    /\ procs[1].hash # procs[2].hash
    /\ sidecar[procs[1].file] = FileOf(HashLen, procs[1].hash)

\* C14 (as claimed): after a successful clean of input P for f, and after a
\* successful smudge for f with output P, the sidecar of f is a file of
\* exactly the 32 bytes of hash(P), whichever branch clean took, and a read of
\* it returns that digest; the sidecar of f then stays as it is until a clean
\* or a smudge for f writes it or a deinit runs.
C14_SidecarIsLastPlaintext ==
    [][\A f \in Files :
          /\ ((Ran("clean", f) \/ Ran("smudge", f)) /\ last'.status = "ok") =>
                LET P == IF last'.op = "clean" THEN last'.input.body ELSE last'.out.body
                IN  /\ sidecar'[f] = FileOf(HashLen, Hash(P))
                    /\ read_sidecar(sidecar'[f]) = [ok |-> TRUE, existing_hash |-> Hash(P)]
          /\ sidecar'[f] # sidecar[f] =>
                \/ last'.op = "deinit"
                \/ Ran("clean", f) /\ ~last'.hit
                \/ Ran("smudge", f) /\ last'.status = "ok"]_vars

\* C15: for a rule tree that is a mapping with an entry whose joined path is
\* the target, the resolver answers from the first such entry alone: its
\* key list when it is well-formed, a configuration error when it is not,
\* whatever the entries before it (which do not match, malformed or not) and
\* after it (a second entry for the same path included) are: the result is
\* that of the tree cut after the first match.
C15_FirstMatchWins ==
    (rq.done /\ rq.src.evalOk /\ rq.src.dirOk /\ rq.src.val.t = "obj") =>
        LET entries == rq.src.val.v
            hits == {i \in 1..Len(entries) :
                        path_eq(join(WorkDir, entries[i][1]), rq.target)}
        IN  hits # {} =>
              LET first == CHOOSE i \in hits : \A j \in hits : i <= j
                  v == entries[first][2]
              IN  /\ WellFormed(v) => rq.res = RuleOk(KeysOf(v))
                  /\ ~WellFormed(v) => ~rq.res.ok /\ rq.res.err \in ConfigErrors
                  /\ rq.res = load_rule_for(Source(JObj(SubSeq(entries, 1, first))),
                                            rq.target)

\* C15 witness: {a: [age1a], ./a: "age1a"} resolved for a: the second entry
\* for the same path, malformed, is neither used nor reported
C15_Witness ==
    /\ rq.done
    /\ rq.src = Source(JObj(<<<<<<"a">>, JObj(<<PublicKeys(<<"age1a">>)>>)>>,
                              <<<<".", "a">>, JStr("age1a")>>>>))
    /\ rq.target = AbsFile("a")
    /\ rq.res = RuleOk(<<"age1a">>)

\* C16: when the rule tree is not a mapping, or the first entry that matches
\* the target is not a mapping, has no publicKeys, has a publicKeys that is
\* no array, or an array with an element that is no string, the resolver
\* fails with a configuration error and returns no key at all; when the
\* first matching entry is none of these it returns the strings of the
\* array, all of them and in the order of the array.
C16_MalformedRuleIsConfigError ==
    (rq.done /\ rq.src.evalOk /\ rq.src.dirOk) =>
        IF rq.src.val.t # "obj"
        THEN /\ ~rq.res.ok /\ rq.res.err = "not_object"
             /\ rq.res.err \in ConfigErrors /\ rq.res.public_keys = <<>>
        ELSE LET entries == rq.src.val.v
                 hits == {i \in 1..Len(entries) :
                             path_eq(join(WorkDir, entries[i][1]), rq.target)}
             IN  hits # {} =>
                   LET v == entries[CHOOSE i \in hits : \A j \in hits : i <= j][2]
                       fields == IF v.t = "obj" THEN v.v ELSE <<>>
                       pks == {i \in 1..Len(fields) : fields[i][1] = "publicKeys"}
                       pk == IF pks = {} THEN JNull ELSE fields[CHOOSE i \in pks : TRUE][2]
                       bad == IF v.t # "obj" THEN "entry_not_object"
                              ELSE IF pks = {} THEN "publicKeys_missing"
                              ELSE IF pk.t # "arr" THEN "publicKeys_not_list"
                              ELSE IF \E j \in 1..Len(pk.v) : pk.v[j].t # "str"
                                   THEN "publicKeys_not_strings"
                                   ELSE "none"
                   IN  IF bad # "none"
                       THEN /\ ~rq.res.ok /\ rq.res.err = bad
                            /\ rq.res.err \in ConfigErrors /\ rq.res.public_keys = <<>>
                       ELSE /\ rq.res.ok
                            /\ Len(rq.res.public_keys) = Len(pk.v)
                            /\ \A j \in 1..Len(pk.v) :
                                  rq.res.public_keys[j] = pk.v[j].v[1]

\* C16 witness: {a: {publicKeys: ["age1a", null]}} resolved for a fails with
\* "publicKeys should be list of strings" and returns no key
C16_Witness ==
    /\ rq.done
    /\ rq.src = Source(JObj(<<<<<<"a">>,
                                JObj(<<<<"publicKeys", JArr(<<JStr("age1a"), JNull>>)>>>>)>>>>))
    /\ rq.target = AbsFile("a")
    /\ rq.res = RuleErr("publicKeys_not_strings")

\* C17: a clean for f whose input has the digest that the sidecar of f holds
\* makes no crypto call and leaves every sidecar as it is; its outcome is
\* that of the lookup of the blob at HEAD (the blob when there is one) and is
\* the same under every rule file, one without an entry for f or with a
\* malformed one included; and no command makes more than one crypto call.
C17_HitSkipsRulesAndCrypto ==
    [][/\ \A f \in Files :
             (/\ Ran("clean", f)
              /\ sidecar[f].exists /\ sidecar[f].len = HashLen
              /\ sidecar[f].hash = Hash(last'.input.body))
             => /\ last'.hit /\ last'.enc = 0 /\ last'.dec = 0
                /\ sidecar' = sidecar
                /\ head[f] # NoBlob => last'.status = "ok" /\ last'.out = head[f]
                /\ head[f] = NoBlob => last'.status = "err" /\ last'.err = "head_io"
                /\ \A src \in FilterSources, n \in Nonces :
                      LET r == clean(sidecar[f], head[f], f, last'.input.body,
                                     RuleFiles[src], n)
                      IN  /\ r.status = last'.status /\ r.err = last'.err
                          /\ r.out = last'.out /\ r.sidecar = sidecar'[f]
       /\ last'.enc + last'.dec <= 1]_vars

\* C17 witness: a clean of a under a rule file with no entry for a found the
\* digest of its input in the sidecar and returned the blob at HEAD
C17_Witness ==
    /\ last.op = "clean" /\ last.file = "a" /\ last.src = "only_b"
    /\ last.hit /\ last.status = "ok" /\ last.enc = 0
    /\ last.out = head["a"] /\ last.out.fmt = "age"
    /\ sidecar["a"] = FileOf(HashLen, Hash(last.input.body))

\* C18: a clean or a smudge for f leaves the sidecar of every other path and
\* the blob at HEAD of every path as they are, and what it does is decided
\* by the sidecar of f alone: it is what the command does on that sidecar; a
\* textconv changes no sidecar and no blob at HEAD, so after it each clean
\* finds the digest of its input in the sidecar exactly when it would have
\* found it before.
C18_PerPathIsolation ==
    [][/\ \A f \in Files :
             (Ran("clean", f) \/ Ran("smudge", f)) =>
                /\ \A g \in Files \ {f} : sidecar'[g] = sidecar[g]
                /\ head' = head
                /\ LET r == IF last'.op = "clean"
                             THEN clean(sidecar[f], head[f], f, last'.input.body,
                                        RuleFiles[last'.src], 1)
                             ELSE smudge(sidecar[f], last'.ids, last'.input)
                   IN  /\ r.status = last'.status /\ r.err = last'.err
                       /\ r.hit = last'.hit
                       /\ r.sidecar = sidecar'[f]
       /\ last'.op = "textconv" =>
             /\ sidecar' = sidecar /\ head' = head
             /\ \A f \in Files, c \in DOMAIN blake3 :
                   (read_sidecar(sidecar'[f]) = [ok |-> TRUE, existing_hash |-> Hash(c)])
                   <=> (read_sidecar(sidecar[f]) = [ok |-> TRUE, existing_hash |-> Hash(c)])]_vars

\* C18 witness: a clean for b has written the sidecar of b while the sidecar
\* of a holds another digest and a has a blob at HEAD
C18_Witness ==
    /\ last.op = "clean" /\ last.file = "b" /\ ~last.hit /\ last.status = "ok"
    /\ sidecar["a"].exists /\ sidecar["b"].exists
    /\ sidecar["a"].hash # sidecar["b"].hash
    /\ head["a"] # NoBlob

====
